---- MODULE Spec2Model ----
(***************************************************************************)
(* Model of the Naisu competitive fulfillment engine:                      *)
(*   naisu-agent/src/solver.rs            calculate_bid, select_winner     *)
(*   naisu-agent/src/bots/*.rs            the five solver variants         *)
(*   naisu-agent/src/config/network.rs    Network, Protocol, ProtocolConfig*)
(*   naisu-agent/src/bin/solver_daemon.rs SolverDaemon                     *)
(*   naisu-sui/src/ptb.rs                 PtbBuilder                       *)
(*                                                                         *)
(* One module, several specifications over disjoint groups of variables:   *)
(*   SpecBid     calculate_bid on drawn inputs                             *)
(*   SpecEval    Solver::evaluate of every variant on every network        *)
(*   SpecSelect  select_winner on drawn bid lists                          *)
(*   SpecPtb     PtbBuilder operations                                     *)
(*   SpecPtbLong PtbBuilder operations on a builder of 65536 commands      *)
(*   SpecFulfill Solver::fulfill called repeatedly on one solver           *)
(*   SpecRegistry ProtocolConfig::get and the two availability functions   *)
(*   Spec        the SolverDaemon main loop                                *)
(*   SpecFair    the same loop, every awaited call returning               *)
(* A specification leaves the other groups at their idle values.           *)
(***************************************************************************)
EXTENDS Integers, Sequences, FiniteSets, TLC

VARIABLES
    \* the build profile: Rust's integer overflow checks are on in debug
    \* builds (overflow panics) and off in release builds (overflow wraps)
    overflow_checks,
    \* SpecBid: the four arguments of calculate_bid and its outcome
    market_apy, user_min, gas_cost_bps, min_profit_bps, bid_result,
    \* SpecEval: a solver, the active network, the intent and evaluate's outcome
    ev_solver, ev_network, ev_intent, ev_result,
    \* SpecSelect: the arguments of select_winner and its outcome
    sel_bids, sel_min_apy, sel_winner,
    \* SpecPtb: PtbBuilder's fields, the last call and what it returned
    inputs, commands, last_call, last_ret, built,
    \* SpecPtb, SpecPtbLong: how many inputs and commands the builder held
    \* when the modelled calls began
    prefilled,
    \* Spec: SolverDaemon's fields and the position of run()
    network, solvers, processed_intents, pc, batch, intent, bids, winner,
    \* Spec, history: polls made, evaluate_intent calls per intent id, and
    \* the fulfill calls of the current round
    polls, rounds, fulfill_log,
    \* Spec, history: the events the poll just made parsed, before the
    \* filter (dropped at the next step), and the ids of the intents whose
    \* winner's fulfill returned Err
    events, failed,
    \* SpecFulfill: one solver and the fulfill calls made on it so far
    ful_solver, ful_calls,
    \* SpecRegistry: the registry lookups made so far
    lookups,
    \* SpecStaking: the FulfillmentParams, what the two `sui client gas`
    \* queries and the `sui client ptb` call answer, and the outcome
    st_params, st_balance_answer, st_coin_answer, st_cli, st_result,
    \* SpecApiBids, SpecApiNetwork: AppState's bids map and network string,
    \* each behind its RwLock
    app_bids, bids_lock, app_network, network_lock,
    \* SpecApiBids, SpecApiNetwork: the handler tasks in flight: each one's
    \* position, request, local copy and answer
    task_pc, task_req, task_local, task_ans,
    \* SpecApiBids, SpecApiNetwork, history: the tasks that had answered
    \* when each task began, and the bids in the order they were written
    task_before, applied

bidVars    == <<market_apy, user_min, gas_cost_bps, min_profit_bps, bid_result>>
evalVars   == <<ev_solver, ev_network, ev_intent, ev_result>>
selVars    == <<sel_bids, sel_min_apy, sel_winner>>
ptbVars    == <<inputs, commands, last_call, last_ret, built, prefilled>>
daemonVars == <<network, solvers, processed_intents, pc, batch, intent, bids,
                winner, polls, rounds, fulfill_log, events, failed>>
fulVars    == <<ful_solver, ful_calls>>
regVars    == <<lookups>>
stVars     == <<st_params, st_balance_answer, st_coin_answer, st_cli,
                st_result>>
apiVars    == <<app_bids, bids_lock, app_network, network_lock, task_pc,
                task_req, task_local, task_ans, task_before, applied>>
vars == <<overflow_checks, bidVars, evalVars, selVars, ptbVars, daemonVars,
          fulVars, regVars, stVars, apiVars>>

\* Option<T>::None, and the value a call has not produced yet
None  == [kind |-> "None"]
Unset == [kind |-> "Unset"]
\* the value of a variable its specification does not use
NoField == [kind |-> "NoField"]

(***************************************************************************)
(* solver.rs: calculate_bid                                                *)
(***************************************************************************)

\* the width of u16: gas_cost_bps and min_profit_bps
U16 == 65536

\* gas_cost_bps + min_profit_bps, added as u16 before the cast to u64:
\* the sum wraps when overflow checks are off and panics when they are on
AddU16(checks, a, b) ==
    IF a + b < U16 THEN [kind |-> "Ok", v |-> a + b]
    ELSE IF checks THEN [kind |-> "Panic"]
    ELSE [kind |-> "Ok", v |-> (a + b) % U16]

\* u64::saturating_sub
saturating_sub(a, b) == IF a >= b THEN a - b ELSE 0

\* market_apy - min_profit_bps as u64. An underflow panics with overflow
\* checks and otherwise wraps to 2^64 - (b - a), a value beyond the model
\* checker's integers: it is kept as the distance below 2^64.
SubU64(checks, a, b) ==
    IF a >= b THEN [kind |-> "Some", apy |-> a - b]
    ELSE IF checks THEN [kind |-> "Panic"]
    ELSE [kind |-> "SomeWrapped", below |-> b - a]

\* a calculate_bid that compares the market yield, not the spread, against
\* the required margin
calculate_bid_market_vs_required(checks, m, u, g, p) ==
    LET required == AddU16(checks, g, p)
    IN  IF required.kind = "Panic" THEN required
        ELSE IF m <= required.v THEN None
        ELSE SubU64(checks, m, p)

calculate_bid(checks, m, u, g, p) ==
    LET spread == saturating_sub(m, u)
        required == AddU16(checks, g, p)
    IN  IF required.kind = "Panic" THEN required
        ELSE IF spread <= required.v THEN None
        ELSE SubU64(checks, m, p)

\* inputs of calculate_bid: the values of the source's tests and the edges of
\* the two integer widths
MarketApys  == {0, 1, 100, 800, 850, 65535}
UserMins    == {0, 70, 750, 790, 850}
GasCosts    == {0, 1, 10, 65535}
MinProfits  == {0, 1, 20, 65535}

IdleBid ==
    /\ market_apy = 0 /\ user_min = 0 /\ gas_cost_bps = 0
    /\ min_profit_bps = 0 /\ bid_result = Unset

InitBid ==
    /\ market_apy \in MarketApys
    /\ user_min \in UserMins
    /\ gas_cost_bps \in GasCosts
    /\ min_profit_bps \in MinProfits
    /\ bid_result = Unset

CalculateBid ==
    /\ bid_result = Unset
    /\ bid_result' = calculate_bid(overflow_checks, market_apy, user_min,
                                   gas_cost_bps, min_profit_bps)
    /\ UNCHANGED <<overflow_checks, market_apy, user_min, gas_cost_bps,
                   min_profit_bps, evalVars, selVars, ptbVars, daemonVars,
                   fulVars, regVars, stVars,
                   apiVars>>

(***************************************************************************)
(* config/network.rs: Network, Protocol, ProtocolConfig                    *)
(***************************************************************************)

Networks  == {"Testnet", "Mainnet"}
Protocols == {"NativeStaking", "DeepBook", "Scallop", "Navi", "Cetus"}

\* Network::supported_protocols, in the order of the two vec! literals
supported_protocols(n) ==
    IF n = "Testnet" THEN <<"NativeStaking", "DeepBook", "Cetus">>
    ELSE <<"Cetus", "Scallop", "Navi", "NativeStaking", "DeepBook">>

\* a protocol available everywhere
is_available_everywhere(p, n) == TRUE

\* Protocol::is_available: the listed pairs are true, everything else false
is_available(p, n) ==
    CASE p = "NativeStaking" /\ n = "Testnet" -> TRUE
      [] p = "DeepBook"      /\ n = "Testnet" -> TRUE
      [] p = "NativeStaking" /\ n = "Mainnet" -> TRUE
      [] p = "DeepBook"      /\ n = "Mainnet" -> TRUE
      [] p = "Scallop"       /\ n = "Mainnet" -> TRUE
      [] p = "Navi"          /\ n = "Mainnet" -> TRUE
      [] p = "Cetus"         /\ n = "Testnet" -> TRUE
      [] p = "Cetus"         /\ n = "Mainnet" -> TRUE
      [] OTHER -> FALSE

\* ProtocolConfig::get: Some(config) for the listed pairs, None for the
\* rest; of a config the model keeps the pair, the module and the number of
\* config_objects
ProtocolConfig_get(p, n) ==
    LET some(m, k) == [kind |-> "Some", network |-> n, protocol |-> p,
                       module |-> m, config_objects |-> k]
    IN  CASE p = "NativeStaking" /\ n = "Testnet" -> some("sui_system", 2)
          [] p = "DeepBook"      /\ n = "Testnet" -> some("clob_v2", 0)
          [] p = "Cetus"         /\ n = "Testnet" -> some("pool", 6)
          [] p = "NativeStaking" /\ n = "Mainnet" -> some("sui_system", 2)
          [] p = "Scallop"       /\ n = "Mainnet" -> some("mint", 4)
          [] p = "Navi"          /\ n = "Mainnet" -> some("incentive_v3", 1)
          [] p = "DeepBook"      /\ n = "Mainnet" -> some("clob_v2", 0)
          [] p = "Cetus"         /\ n = "Mainnet" -> some("pool", 6)
          [] OTHER -> None

\* the registry is static: any number of lookups, MaxLookups of them here
MaxLookups == 2

IdleRegistry == lookups = <<>>

InitRegistry == lookups = <<>>

\* one lookup of a (protocol, network) pair through each of the three
\* functions
Lookup ==
    /\ Len(lookups) < MaxLookups
    /\ \E p \in Protocols, n \in Networks :
          lookups' = Append(lookups,
              [protocol  |-> p,
               network   |-> n,
               config    |-> ProtocolConfig_get(p, n),
               supported |-> \E i \in 1..Len(supported_protocols(n)) :
                                 supported_protocols(n)[i] = p,
               available |-> is_available(p, n)])
    /\ UNCHANGED <<overflow_checks, bidVars, evalVars, selVars, ptbVars,
                   daemonVars, fulVars, stVars, apiVars>>

(***************************************************************************)
(* bots/*.rs: the solver variants                                          *)
(***************************************************************************)

SolverConfig(name, profit, gas, slippage) ==
    [name |-> name, min_profit_bps |-> profit, gas_cost_bps |-> gas,
     max_slippage_bps |-> slippage]

\* The constructors. Only CetusSolver holds a network and a protocol
\* config; only StakingSolver holds a validator.

StakingSolver_new ==
    [variant |-> "StakingSolver",
     config |-> SolverConfig("StakingSolver", 20, 15, 0),
     validator |-> "VALIDATOR_ADDRESS"]

DeepBookSolver_new ==
    [variant |-> "DeepBookSolver",
     config |-> SolverConfig("DeepBookSolver", 30, 15, 50)]

NaviSolver_new ==
    [variant |-> "NaviSolver",
     config |-> SolverConfig("NaviSolver", 15, 10, 50)]

ScallopSolver_new ==
    [variant |-> "ScallopSolver",
     config |-> SolverConfig("ScallopSolver", 20, 10, 50)]

CetusSolver_new(n) ==
    [variant |-> "CetusSolver",
     config |-> SolverConfig("CetusSolver", 30, 20, 100),
     network |-> n, protocol_config |-> ProtocolConfig_get("Cetus", n)]

\* the protocol each variant wraps (the module headers of bots/*.rs)
SolverProtocol(s) ==
    CASE s.variant = "StakingSolver"  -> "NativeStaking"
      [] s.variant = "DeepBookSolver" -> "DeepBook"
      [] s.variant = "NaviSolver"     -> "Navi"
      [] s.variant = "ScallopSolver"  -> "Scallop"
      [] s.variant = "CetusSolver"    -> "Cetus"

\* every solver under one name
name_shared(s) == "Solver"

\* Solver::name
name(s) == s.config.name

\* one market yield for every variant
get_market_apy_bps_flat(s) == 900

\* get_staking_apy_bps / get_market_apy_bps: constants per variant
get_market_apy_bps(s) ==
    CASE s.variant = "StakingSolver"  -> 900
      [] s.variant = "DeepBookSolver" -> 500
      [] s.variant = "NaviSolver"     -> 800
      [] s.variant = "ScallopSolver"  -> 850
      [] s.variant = "CetusSolver"    ->
            IF s.network = "Testnet" THEN 1200 ELSE 1500

\* the confidence of each variant's bids, in hundredths
Confidence(s) ==
    CASE s.variant = "StakingSolver"  -> 100
      [] s.variant = "DeepBookSolver" -> 88
      [] s.variant = "NaviSolver"     -> 95
      [] s.variant = "ScallopSolver"  -> 95
      [] s.variant = "CetusSolver"    -> 85

\* CetusSolver::is_available
CetusSolver_is_available(s) == s.protocol_config.kind = "Some"

Bid(solver_name, apy, profit_bps, confidence) ==
    [solver_name |-> solver_name, apy |-> apy, profit_bps |-> profit_bps,
     confidence |-> confidence]

\* Solver::evaluate. Only CetusSolver consults availability, and it
\* consults its own network; the other four go straight to calculate_bid.
\* calculate_bid(..).map(|apy| Bid {..}): a panic propagates.
evaluate(checks, s, it) ==
    IF s.variant = "CetusSolver" /\ ~CetusSolver_is_available(s) THEN None
    ELSE LET r == calculate_bid(checks, get_market_apy_bps(s), it.min_apy,
                                s.config.gas_cost_bps, s.config.min_profit_bps)
         IN  IF r.kind = "Some"
             THEN [kind |-> "Some",
                   bid |-> Bid(name(s), r.apy, s.config.min_profit_bps,
                               Confidence(s))]
             ELSE r

\* IntentRequest
IntentRequest(id, user, amount, min_apy, deadline) ==
    [id |-> id, user |-> user, amount |-> amount, min_apy |-> min_apy,
     deadline |-> deadline]

\* every solver value the constructors can build
SolverValues ==
    {StakingSolver_new, DeepBookSolver_new, NaviSolver_new, ScallopSolver_new}
    \cup {CetusSolver_new(n) : n \in Networks}

\* min_apy values on both sides of every variant's bidding threshold
EvalMinApys == {0, 400, 454, 455, 750, 774, 775, 819, 820, 864, 865, 1000,
                1149, 1150, 1449, 1450, 2000}

IdleEval ==
    /\ ev_solver = NoField /\ ev_network = "Testnet"
    /\ ev_intent = NoField /\ ev_result = Unset

InitEval ==
    /\ ev_network \in Networks
    /\ ev_solver \in SolverValues
    /\ \E m \in EvalMinApys :
          ev_intent = IntentRequest("0x123", "0xabc", 1000000000, m, 3600)
    /\ ev_result = Unset

Evaluate ==
    /\ ev_result = Unset
    /\ ev_result' = evaluate(overflow_checks, ev_solver, ev_intent)
    /\ UNCHANGED <<overflow_checks, ev_solver, ev_network, ev_intent,
                   bidVars, selVars, ptbVars, daemonVars, fulVars, regVars, stVars,
                   apiVars>>

(***************************************************************************)
(* solver.rs: select_winner                                                *)
(***************************************************************************)

\* Iterator::filter(|b| b.apy >= min_apy)
filter_min_apy(bs, min_apy) == SelectSeq(bs, LAMBDA b : b.apy >= min_apy)

\* Iterator::max_by(|a, b| a.apy.cmp(&b.apy)) is a reduce that keeps the
\* accumulator only when it compares Greater, and otherwise takes the next
\* element: of several equal maxima the last one is returned.
RECURSIVE reduce_max(_, _)
reduce_max(x, rest) ==
    IF rest = <<>> THEN x
    ELSE reduce_max(IF x.apy > Head(rest).apy THEN x ELSE Head(rest),
                    Tail(rest))

\* a max_by that keeps the accumulator on Equal too (the first maximum)
RECURSIVE reduce_max_first(_, _)
reduce_max_first(x, rest) ==
    IF rest = <<>> THEN x
    ELSE reduce_max_first(IF x.apy >= Head(rest).apy THEN x ELSE Head(rest),
                          Tail(rest))

max_by_first(bs) ==
    IF bs = <<>> THEN None
    ELSE [kind |-> "Some", bid |-> reduce_max_first(Head(bs), Tail(bs))]

max_by(bs) ==
    IF bs = <<>> THEN None
    ELSE [kind |-> "Some", bid |-> reduce_max(Head(bs), Tail(bs))]

\* select_winner without the filter
select_winner_no_filter(bs, min_apy) == max_by(bs)

\* select_winner taking the first bid that passes the filter
select_winner_first_passing(bs, min_apy) ==
    LET f == filter_min_apy(bs, min_apy)
    IN  IF f = <<>> THEN None ELSE [kind |-> "Some", bid |-> Head(f)]

select_winner(bs, min_apy) == max_by(filter_min_apy(bs, min_apy))

\* bid lists of at most MaxBids bids
MaxBids == 3

SelNames   == {"A", "B", "C"}
SelApys    == {740, 800, 820}
SelMinApys == {750, 810, 900}

SelBidValues == {Bid(n, a, 20, 90) : n \in SelNames, a \in SelApys}

SeqsUpTo(S, n) == UNION {[1..k -> S] : k \in 0..n}

IdleSelect == sel_bids = <<>> /\ sel_min_apy = 0 /\ sel_winner = Unset

InitSelect ==
    /\ sel_bids \in SeqsUpTo(SelBidValues, MaxBids)
    /\ sel_min_apy \in SelMinApys
    /\ sel_winner = Unset

SelectWinner ==
    /\ sel_winner = Unset
    /\ sel_winner' = select_winner(sel_bids, sel_min_apy)
    /\ UNCHANGED <<overflow_checks, sel_bids, sel_min_apy,
                   bidVars, evalVars, ptbVars, daemonVars, fulVars, regVars, stVars,
                   apiVars>>

(***************************************************************************)
(* naisu-sui/src/ptb.rs: PtbBuilder                                        *)
(***************************************************************************)

\* PtbArgument
GasCoin            == [kind |-> "GasCoin"]
Input(i)           == [kind |-> "Input", index |-> i]
Result(i)          == [kind |-> "Result", index |-> i]
NestedResult(i, j) == [kind |-> "NestedResult", index |-> i, result_index |-> j]

\* PtbInput; bcs_serialize is a placeholder that returns an empty vector,
\* so every Pure input add_pure makes holds <<>>
Object(id, version, digest) ==
    [type |-> "object", object_id |-> id, version |-> version, digest |-> digest]
Pure(bytes) == [type |-> "pure", value |-> bytes]
SharedObject(id, version, mutable) ==
    [type |-> "sharedobject", object_id |-> id,
     initial_shared_version |-> version, mutable |-> mutable]
bcs_serialize(value) == <<>>

\* PtbCommand
MoveCallCommand(package, module, function, type_args, args) ==
    [kind |-> "MoveCall", package |-> package, module |-> module,
     function |-> function, type_arguments |-> type_args, arguments |-> args]
TransferObjectsCommand(objects, address) ==
    [kind |-> "TransferObjects", objects |-> objects, address |-> address]
SplitCoinsCommand(coin, amounts) ==
    [kind |-> "SplitCoins", coin |-> coin, amounts |-> amounts]
MergeCoinsCommand(destination, sources) ==
    [kind |-> "MergeCoins", destination |-> destination, sources |-> sources]

\* `len() as u16`
AsU16(n) == n % U16

\* the unit value of transfer_objects and merge_coins
Unit == [kind |-> "Unit"]

\* at most MaxCommands commands and MaxInputs inputs per builder
MaxCommands == 2
MaxInputs   == 1

\* the values the calls are made with
PtbInputValues == {Object("0xc01", 7, "dg"), Pure(bcs_serialize(1000)),
                   SharedObject("0x5", 1, TRUE)}
PtbArgLists    == {<<>>, <<Input(0)>>, <<Result(0)>>, <<Result(1)>>,
                   <<NestedResult(1, 0)>>}
PtbCoins       == {GasCoin, Result(0), Result(1)}
PtbAmounts     == {<<Input(0)>>}
PtbSources     == {<<Result(0)>>, <<NestedResult(1, 0)>>}
PtbDests       == {GasCoin, Result(1)}
PtbObjects     == {<<Result(0)>>, <<Result(1)>>}
PtbAddresses   == {Input(0), Result(1)}

\* a call as the model records it: the operation, every PtbArgument passed
\* to it, and the numbers of inputs and commands the builder held when it
\* was made
Call(op, refs) ==
    [op |-> op, refs |-> refs, inputs_before |-> Len(inputs),
     commands_before |-> Len(commands)]

IdlePtb ==
    /\ inputs = <<>> /\ commands = <<>> /\ last_call = Unset
    /\ last_ret = Unset /\ built = Unset
    /\ prefilled = [inputs |-> 0, commands |-> 0]

\* PtbBuilder::new
InitPtb ==
    /\ inputs = <<>>
    /\ commands = <<>>
    /\ last_call = Unset
    /\ last_ret = Unset
    /\ built = Unset
    /\ prefilled = [inputs |-> 0, commands |-> 0]

\* PtbBuilder::new followed by U16 move_call calls without arguments: the
\* builder holds 65536 commands, one more than a u16 index can name
InitPtbLong ==
    /\ inputs = <<>>
    /\ commands = [i \in 1..U16 |->
                       MoveCallCommand("0x3", "sui_system",
                                       "request_add_stake", <<>>, <<>>)]
    /\ last_call = Unset
    /\ last_ret = Unset
    /\ built = Unset
    /\ prefilled = [inputs |-> 0, commands |-> U16]

ptbFrame == <<overflow_checks, prefilled, bidVars, evalVars, selVars,
              daemonVars, fulVars, regVars, stVars,
                   apiVars>>

\* a push that puts the element in front
push_front(list, x) == <<x>> \o list

\* self.inputs.push(..) and self.commands.push(..): Vec::push
push(list, x) == Append(list, x)

\* add_input, and through it add_pure, add_object and add_shared_object
AddInput ==
    /\ built = Unset
    /\ Len(inputs) - prefilled.inputs < MaxInputs
    /\ \E v \in PtbInputValues :
          /\ inputs' = push(inputs, v)
          /\ last_call' = Call("add_input", <<>>)
          /\ last_ret' = Input(AsU16(Len(inputs)))
    /\ UNCHANGED <<commands, built, ptbFrame>>

MoveCall ==
    /\ built = Unset
    /\ Len(commands) - prefilled.commands < MaxCommands
    /\ \E args \in PtbArgLists :
          /\ commands' = push(commands,
                 MoveCallCommand("0x3", "sui_system", "request_add_stake",
                                 <<>>, args))
          /\ last_call' = Call("move_call", args)
          /\ last_ret' = Result(AsU16(Len(commands)))
    /\ UNCHANGED <<inputs, built, ptbFrame>>

TransferObjects ==
    /\ built = Unset
    /\ Len(commands) - prefilled.commands < MaxCommands
    /\ \E objects \in PtbObjects, address \in PtbAddresses :
          /\ commands' = push(commands,
                                TransferObjectsCommand(objects, address))
          /\ last_call' = Call("transfer_objects", objects \o <<address>>)
          /\ last_ret' = Unit
    /\ UNCHANGED <<inputs, built, ptbFrame>>

SplitCoins ==
    /\ built = Unset
    /\ Len(commands) - prefilled.commands < MaxCommands
    /\ \E coin \in PtbCoins, amounts \in PtbAmounts :
          /\ commands' = push(commands, SplitCoinsCommand(coin, amounts))
          /\ last_call' = Call("split_coins", <<coin>> \o amounts)
          /\ last_ret' = Result(AsU16(Len(commands)))
    /\ UNCHANGED <<inputs, built, ptbFrame>>

MergeCoins ==
    /\ built = Unset
    /\ Len(commands) - prefilled.commands < MaxCommands
    /\ \E destination \in PtbDests, sources \in PtbSources :
          /\ commands' = push(commands,
                                MergeCoinsCommand(destination, sources))
          /\ last_call' = Call("merge_coins", <<destination>> \o sources)
          /\ last_ret' = Unit
    /\ UNCHANGED <<inputs, built, ptbFrame>>

\* build(self) consumes the builder: no operation follows it
Build ==
    /\ built = Unset
    /\ built' = [kind |-> "Some", inputs |-> inputs, commands |-> commands]
    /\ last_call' = Call("build", <<>>)
    /\ last_ret' = built'
    /\ UNCHANGED <<inputs, commands, ptbFrame>>

(***************************************************************************)
(* bin/solver_daemon.rs: SolverDaemon                                      *)
(***************************************************************************)

\* a solver set holding every variant on either network
SolverDaemon_new_every_variant(n) ==
    <<StakingSolver_new, ScallopSolver_new, NaviSolver_new,
      CetusSolver_new(n), DeepBookSolver_new>>

\* SolverDaemon::new: the solver list of each network
SolverDaemon_new(n) ==
    IF n = "Testnet"
    THEN <<StakingSolver_new, DeepBookSolver_new>>
    ELSE <<StakingSolver_new, ScallopSolver_new, NaviSolver_new,
           CetusSolver_new("Mainnet"), DeepBookSolver_new>>

\* an evaluate_intent that keeps the bid of the first bidding solver only
evaluate_intent_first_only(checks, ss, it) ==
    LET rs   == [i \in 1..Len(ss) |-> evaluate(checks, ss[i], it)]
        some == SelectSeq(rs, LAMBDA r : r.kind = "Some")
    IN  IF some = <<>> THEN <<>> ELSE <<some[1].bid>>

\* evaluate_intent: every solver in list order, the Some results pushed
evaluate_intent(checks, ss, it) ==
    LET rs   == [i \in 1..Len(ss) |-> evaluate(checks, ss[i], it)]
        some == SelectSeq(rs, LAMBDA r : r.kind = "Some")
    IN  [i \in 1..Len(some) |-> some[i].bid]

\* a lookup that takes the head of the solver list
find_solver_head(ss, solver_name) == 1

\* self.solvers.iter().find(|s| s.name() == winner.solver_name): the
\* position of the first solver of that name, 0 for None
find_solver(ss, solver_name) ==
    IF \E i \in 1..Len(ss) : name(ss[i]) = solver_name
    THEN CHOOSE i \in 1..Len(ss) :
            /\ name(ss[i]) = solver_name
            /\ \A j \in 1..(i - 1) : name(ss[j]) # solver_name
    ELSE 0

\* Result<String, SolverError> of fulfill: Ok(tx_digest), or the only
\* error the fulfill bodies build
Ok_tx_digest == [kind |-> "Ok"]
Err_FulfillmentFailed == [kind |-> "Err", error |-> "FulfillmentFailed"]

\* executors that can all succeed or fail
ExecutorResults_all_implemented(s) ==
    IF s.variant = "DeepBookSolver" THEN {"NotCalled"} ELSE {"Ok", "Err"}

\* What the executor a fulfill calls can return: execute_navi_fulfillment
\* is `Err(anyhow!(..))` and nothing else, DeepBookSolver calls none, the
\* others run a transaction that succeeds or fails.
ExecutorResults(s) ==
    CASE s.variant = "NaviSolver"     -> {"Err"}
      [] s.variant = "DeepBookSolver" -> {"NotCalled"}
      [] OTHER -> {"Ok", "Err"}

\* Solver::fulfill of each variant, given what its executor returns
fulfill(s, exec) ==
    CASE s.variant = "DeepBookSolver" -> Err_FulfillmentFailed
      [] s.variant = "CetusSolver" /\ ~CetusSolver_is_available(s) ->
            Err_FulfillmentFailed
      [] OTHER ->
            IF exec = "Ok" THEN Ok_tx_digest ELSE Err_FulfillmentFailed

\* What Solver::fulfill can return, as "Ok" or "Err"
FulfillResults(s) == {fulfill(s, exec).kind : exec \in ExecutorResults(s)}

\* at most MaxPolls poll cycles, each returning at most MaxBatch events
MaxPolls == 2
MaxBatch == 2

\* the intents the ledger holds: one that every solver bids on (its
\* deadline long past), one that only some bid on, one that none bids on
LedgerIntents ==
    {IntentRequest("0x1", "0xabc", 1000000000, 400, 0),
     IntentRequest("0x2", "0xdef", 2000000000, 800, 3600),
     IntentRequest("0x3", "0xabc", 1000000000, 1600, 3600)}
IntentIds == {it.id : it \in LedgerIntents}

\* fulfill is called any number of times on one solver, MaxCalls here
MaxCalls == 2

IdleFulfill == ful_solver = NoField /\ ful_calls = <<>>

InitFulfill == ful_solver \in SolverValues /\ ful_calls = <<>>

\* one more fulfill call on the solver, for any intent
Fulfill ==
    /\ Len(ful_calls) < MaxCalls
    /\ \E it \in LedgerIntents, exec \in ExecutorResults(ful_solver) :
          ful_calls' = Append(ful_calls,
              [intent |-> it.id, result |-> fulfill(ful_solver, exec)])
    /\ UNCHANGED <<overflow_checks, ful_solver, bidVars, evalVars, selVars,
                   ptbVars, daemonVars, regVars, stVars,
                   apiVars>>

IdleDaemon ==
    /\ network = "Testnet" /\ solvers = <<>> /\ processed_intents = {}
    /\ pc = "idle" /\ batch = <<>> /\ intent = Unset /\ bids = <<>>
    /\ winner = Unset /\ polls = 0 /\ rounds = <<>> /\ fulfill_log = <<>>
    /\ events = <<>> /\ failed = {}

\* SolverDaemon::new(args.network), then run() up to its loop
InitDaemon ==
    /\ network \in Networks
    /\ solvers = SolverDaemon_new(network)
    /\ processed_intents = {}
    /\ pc = "poll"
    /\ batch = <<>>
    /\ intent = Unset
    /\ bids = <<>>
    /\ winner = Unset
    /\ polls = 0
    /\ rounds = [id \in IntentIds |-> 0]
    /\ fulfill_log = <<>>
    /\ events = <<>>
    /\ failed = {}

daemonFrame == <<overflow_checks, bidVars, evalVars, selVars, ptbVars,
                 fulVars, regVars, stVars,
                   apiVars>>

\* a poll that hands every parsed event on
new_intents_unfiltered(evs, processed) == evs

\* poll_intents: `if !self.processed_intents.contains(&intent.id)` keeps the
\* parsed events whose id is not in processed_intents, in event order
new_intents(evs, processed) ==
    SelectSeq(evs, LAMBDA it : it.id \notin processed)

\* poll_intents(false) answers Ok with the new intents of the events the
\* query returned
PollIntentsOk ==
    /\ pc = "poll"
    /\ polls < MaxPolls
    /\ events' \in SeqsUpTo(LedgerIntents, MaxBatch)
    /\ batch' = new_intents(events', processed_intents)
    /\ polls' = polls + 1
    /\ pc' = IF batch' = <<>> THEN "sleep" ELSE "next_intent"
    /\ UNCHANGED <<network, solvers, processed_intents, intent, bids, winner,
                   rounds, fulfill_log, failed, daemonFrame>>

\* poll_intents(false) answers Err: logged, then the sleep
PollIntentsErr ==
    /\ pc = "poll"
    /\ polls < MaxPolls
    /\ polls' = polls + 1
    /\ events' = <<>>
    /\ pc' = "sleep"
    /\ UNCHANGED <<network, solvers, processed_intents, batch, intent, bids,
                   winner, rounds, fulfill_log, failed, daemonFrame>>

\* `for intent in intents`: the previous iteration's locals (bids, the
\* winner) are gone, and the next intent is marked processed
NextIntent ==
    /\ pc = "next_intent"
    /\ IF batch = <<>>
       THEN /\ pc' = "sleep"
            /\ UNCHANGED <<processed_intents, batch, intent>>
       ELSE /\ intent' = Head(batch)
            /\ batch' = Tail(batch)
            /\ processed_intents' = processed_intents \cup {Head(batch).id}
            /\ pc' = "evaluate"
    /\ bids' = <<>>
    /\ winner' = Unset
    /\ fulfill_log' = <<>>
    /\ events' = <<>>
    /\ UNCHANGED <<network, solvers, polls, rounds, failed, daemonFrame>>

\* evaluate_intent(&intent): one auction round begins; no bids: continue
EvaluateIntent ==
    /\ pc = "evaluate"
    /\ bids' = evaluate_intent(overflow_checks, solvers, intent)
    /\ rounds' = [rounds EXCEPT ![intent.id] = @ + 1]
    /\ pc' = IF bids' = <<>> THEN "next_intent" ELSE "execute"
    /\ UNCHANGED <<network, solvers, processed_intents, batch, intent, winner,
                   polls, fulfill_log, events, failed, daemonFrame>>

\* execute_winning_bid up to the call of fulfill
ExecuteWinningBid ==
    /\ pc = "execute"
    /\ winner' = select_winner(bids, intent.min_apy)
    /\ IF winner'.kind = "Some"
          /\ find_solver(solvers, winner'.bid.solver_name) # 0
       THEN /\ fulfill_log' = Append(fulfill_log,
                   [solver |-> find_solver(solvers, winner'.bid.solver_name),
                    result |-> "Pending"])
            /\ pc' = "fulfill"
       ELSE /\ fulfill_log' = fulfill_log
            /\ pc' = "next_intent"
    /\ UNCHANGED <<network, solvers, processed_intents, batch, intent, bids,
                   polls, rounds, events, failed, daemonFrame>>

\* a fulfill whose Err leaves run(), as `?` on the result would
FulfillReturns_err_exits ==
    /\ pc = "fulfill"
    /\ \E r \in FulfillResults(solvers[fulfill_log[Len(fulfill_log)].solver]) :
          /\ fulfill_log' = [fulfill_log EXCEPT ![Len(fulfill_log)].result = r]
          /\ failed' = IF r = "Err" THEN failed \cup {intent.id} ELSE failed
          /\ pc' = IF r = "Err" THEN "exited" ELSE "next_intent"
    /\ UNCHANGED <<network, solvers, processed_intents, batch, intent, bids,
                   winner, polls, rounds, events, daemonFrame>>

\* fulfill returns: Ok and Err are both logged, and the loop goes on
FulfillReturns ==
    /\ pc = "fulfill"
    /\ \E r \in FulfillResults(solvers[fulfill_log[Len(fulfill_log)].solver]) :
          /\ fulfill_log' = [fulfill_log EXCEPT ![Len(fulfill_log)].result = r]
          /\ failed' = IF r = "Err" THEN failed \cup {intent.id} ELSE failed
    /\ pc' = "next_intent"
    /\ UNCHANGED <<network, solvers, processed_intents, batch, intent, bids,
                   winner, polls, rounds, events, daemonFrame>>

\* tokio::time::sleep(10 s), then the next poll
Sleep ==
    /\ pc = "sleep"
    /\ pc' = "poll"
    /\ events' = <<>>
    /\ UNCHANGED <<network, solvers, processed_intents, batch, intent, bids,
                   winner, polls, rounds, fulfill_log, failed, daemonFrame>>

\* the daemon after a first poll that returned one new intent, of any of
\* the minimum yields of EvalMinApys
InitRound ==
    /\ network \in Networks
    /\ solvers = SolverDaemon_new(network)
    /\ processed_intents = {}
    /\ pc = "next_intent"
    /\ \E m \in EvalMinApys :
          batch = <<IntentRequest("0x1", "0xabc", 1000000000, m, 3600)>>
    /\ intent = Unset
    /\ bids = <<>>
    /\ winner = Unset
    /\ polls = 1
    /\ rounds = [id \in IntentIds |-> 0]
    /\ fulfill_log = <<>>
    /\ events = batch
    /\ failed = {}

(***************************************************************************)
(* executor/real_executor.rs: the staking fulfillment                      *)
(***************************************************************************)

\* A u64 within 2^31 of 2^64 is kept as the negative number v - 2^64, any
\* other as itself. a + b for b >= 0: past 2^64 it panics with overflow
\* checks and wraps without.
AddU64(checks, a, b) ==
    IF a < 0 /\ a + b >= 0
    THEN IF checks THEN [kind |-> "Panic"] ELSE [kind |-> "Ok", v |-> a + b]
    ELSE [kind |-> "Ok", v |-> a + b]

\* a < b on u64
LtU64(a, b) == IF (a < 0) = (b < 0) THEN a < b ELSE b < 0

\* the gas buffer of the balance check, the least balance of a usable
\* coin, and MIN_STAKE
GAS_BUFFER == 10000000
MIN_COIN_BALANCE == 1100000000
MIN_STAKE == 1000000000

SUI_SYSTEM == "0x3"
SUI_SYSTEM_STATE == "0x5"

FulfillmentParams(intent_id, user_address, amount, validator) ==
    [intent_id |-> intent_id, user_address |-> user_address,
     amount |-> amount, validator |-> validator]

CliErr == [kind |-> "Err"]
\* `sui client gas --json` answering the mistBalance of each gas coin
GasObjects(balances) == [kind |-> "Ok", coins |-> balances]

RECURSIVE SumSeq(_)
SumSeq(q) == IF q = <<>> THEN 0 ELSE Head(q) + SumSeq(Tail(q))

\* check_solver_balance: the sum of the coins' balances
check_solver_balance(answer) ==
    IF answer.kind = "Err" THEN CliErr
    ELSE [kind |-> "Ok", v |-> SumSeq(answer.coins)]

\* the loop of get_solver_coin: the position of the largest coin among
\* those of at least MIN_COIN_BALANCE, the first of equal ones; 0 for none
RECURSIVE best_coin(_, _, _)
best_coin(coins, i, best) ==
    IF i > Len(coins) THEN best
    ELSE best_coin(coins, i + 1,
             IF coins[i] >= MIN_COIN_BALANCE
                /\ (best = 0 \/ coins[i] > coins[best])
             THEN i ELSE best)

\* get_solver_coin
get_solver_coin(answer) ==
    IF answer.kind = "Err" THEN CliErr
    ELSE IF best_coin(answer.coins, 1, 0) = 0 THEN CliErr
    ELSE [kind |-> "Ok", coin |-> best_coin(answer.coins, 1, 0)]

\* the arguments of `sui client ptb`: --split-coins gas [amount] --assign
\* stake_coin --move-call 0x3::sui_system::request_add_stake @0x5 stake_coin
\* @validator, as the commands of the transaction
staking_ptb_commands(params) ==
    <<SplitCoinsCommand(GasCoin, <<[kind |-> "Pure", value |-> params.amount]>>),
      MoveCallCommand(SUI_SYSTEM, "sui_system", "request_add_stake", <<>>,
                      <<[kind |-> "Object", id |-> SUI_SYSTEM_STATE],
                        Result(0),
                        [kind |-> "Address", value |-> params.validator]>>)>>

\* execute_staking_ptb: the MIN_STAKE check, then the CLI call, whose
\* answer either holds a digest (Ok) or does not (Err)
execute_staking_ptb(params, coin, cli) ==
    IF LtU64(params.amount, MIN_STAKE)
    THEN [kind |-> "Err", submitted |-> <<>>]
    ELSE [kind |-> cli, submitted |-> staking_ptb_commands(params)]

\* execute_staking_fulfillment: the outcome and the commands submitted
execute_staking_fulfillment(checks, params, balance_answer, coin_answer, cli) ==
    LET balance == check_solver_balance(balance_answer)
        need    == AddU64(checks, params.amount, GAS_BUFFER)
        coin    == get_solver_coin(coin_answer)
    IN  IF balance.kind = "Err" THEN [kind |-> "Err", submitted |-> <<>>]
        ELSE IF need.kind = "Panic"
             THEN [kind |-> "Panic", submitted |-> <<>>]
        ELSE IF LtU64(balance.v, need.v)
             THEN [kind |-> "Err", submitted |-> <<>>]
        ELSE IF coin.kind = "Err" THEN [kind |-> "Err", submitted |-> <<>>]
        ELSE execute_staking_ptb(params, coin.coin, cli)

\* the amounts around MIN_STAKE and, as negative numbers, 2^64 - GAS_BUFFER
\* and u64::MAX
StakeAmounts == {0, 999999999, 1000000000, 1090000000, 2000000000,
                 -10000000, -1}
\* the answers of `sui client gas`: a failure, or the wallet's coins
GasAnswers ==
    {CliErr, GasObjects(<<>>), GasObjects(<<1009999999>>),
     GasObjects(<<1010000000>>), GasObjects(<<1100000000>>),
     GasObjects(<<600000000, 600000000>>),
     GasObjects(<<100000000, 2000000000>>)}

IdleStaking ==
    /\ st_params = NoField /\ st_balance_answer = NoField
    /\ st_coin_answer = NoField /\ st_cli = "Err" /\ st_result = Unset

\* StakingSolver::fulfill builds the params from the intent and its
\* validator
InitStaking ==
    /\ \E a \in StakeAmounts :
          st_params = FulfillmentParams("0x1", "0xabc", a,
                                        StakingSolver_new.validator)
    /\ st_balance_answer \in GasAnswers
    /\ st_coin_answer \in GasAnswers
    /\ st_cli \in {"Ok", "Err"}
    /\ st_result = Unset

\* StakingSolver::fulfill: Ok and Err of the executor are mapped, a panic
\* unwinds through it
StakingFulfill ==
    /\ st_result = Unset
    /\ LET r == execute_staking_fulfillment(overflow_checks, st_params,
                     st_balance_answer, st_coin_answer, st_cli)
       IN  st_result' =
               [exec |-> r,
                fulfill |-> IF r.kind = "Panic" THEN [kind |-> "Panic"]
                            ELSE fulfill(StakingSolver_new, r.kind)]
    /\ UNCHANGED <<overflow_checks, st_params, st_balance_answer,
                   st_coin_answer, st_cli, bidVars, evalVars, selVars,
                   ptbVars, daemonVars, fulVars, regVars, apiVars>>

(***************************************************************************)
(* naisu-api/src/state.rs: AppState, and the handlers that use it          *)
(*                                                                         *)
(* The handlers run as tasks of a multi-threaded runtime: a task's steps   *)
(* are the operations on the two locks and what it does between them.      *)
(***************************************************************************)

\* tokio::sync::RwLock: any number of read guards or one write guard
NoTask   == "none"
FreeLock == [readers |-> {}, writer |-> NoTask]

\* a read guard is granted when no write guard is out
can_read(lock) == lock.writer = NoTask

\* a lock that grants a write guard whatever guards are out
can_write_always(lock) == TRUE

\* a write guard is granted when no guard is out
can_write(lock) == lock.writer = NoTask /\ lock.readers = {}

\* SolverBidEntry
SolverBidEntry(intent_id, solver_name) ==
    [intent_id |-> intent_id, solver_name |-> solver_name,
     protocol |-> "scallop", offered_apy |-> 830, profit_bps |-> 20,
     timestamp |-> 0]

\* HashMap::get(id).cloned().unwrap_or_default()
get_or_default(map, id) == IF id \in DOMAIN map THEN map[id] ELSE <<>>

\* HashMap::insert
insert(map, id, v) ==
    [k \in DOMAIN map \cup {id} |-> IF k = id THEN v ELSE map[k]]

\* the tasks of SpecApiBids: POST /solvers/bids and GET /solvers/bids/:id
Adders  == {"a1", "a2", "a3"}
Getters == {"g1"}

\* the bodies posted and the ids asked for
BidRequests ==
    {SolverBidEntry("0x1", "A"), SolverBidEntry("0x1", "B"),
     SolverBidEntry("0x2", "A"), SolverBidEntry("", "A")}
BidIntentIds == {"0x1", "0x2"}

\* the tasks that have answered
Answered == {t \in DOMAIN task_pc : task_pc[t] = "done"}

IdleApi ==
    /\ app_bids = <<>> /\ bids_lock = FreeLock
    /\ app_network = "testnet" /\ network_lock = FreeLock
    /\ task_pc = <<>> /\ task_req = <<>> /\ task_local = <<>>
    /\ task_ans = <<>> /\ task_before = <<>> /\ applied = <<>>

\* AppState::new, and no request received yet
InitApi(tasks) ==
    /\ app_bids = <<>> /\ bids_lock = FreeLock
    /\ app_network = "testnet" /\ network_lock = FreeLock
    /\ task_pc = [t \in tasks |-> "idle"]
    /\ task_req = [t \in tasks |-> Unset]
    /\ task_local = [t \in tasks |-> Unset]
    /\ task_ans = [t \in tasks |-> Unset]
    /\ task_before = [t \in tasks |-> {}]
    /\ applied = <<>>

apiFrame == <<overflow_checks, bidVars, evalVars, selVars, ptbVars,
              daemonVars, fulVars, regVars, stVars>>

\* post_bid up to the call of add_bid: an empty intent_id or solver_name
\* is answered 400 and nothing is stored
PostBid ==
    \E p \in Adders, bid \in BidRequests :
        /\ task_pc[p] = "idle"
        /\ task_req' = [task_req EXCEPT ![p] = bid]
        /\ task_before' = [task_before EXCEPT ![p] = Answered]
        /\ IF bid.intent_id = "" \/ bid.solver_name = ""
           THEN /\ task_pc' = [task_pc EXCEPT ![p] = "done"]
                /\ task_ans' = [task_ans EXCEPT ![p] =
                                   [kind |-> "Err", code |-> 400]]
           ELSE /\ task_pc' = [task_pc EXCEPT ![p] = "write"]
                /\ task_ans' = task_ans
        /\ UNCHANGED <<app_bids, bids_lock, app_network, network_lock,
                       task_local, applied, apiFrame>>

\* add_bid: self.bids.write().await returns the write guard
AddBidWrite ==
    \E p \in Adders :
        /\ task_pc[p] = "write"
        /\ can_write(bids_lock)
        /\ bids_lock' = [bids_lock EXCEPT !.writer = p]
        /\ task_pc' = [task_pc EXCEPT ![p] = "entry"]
        /\ UNCHANGED <<app_bids, app_network, network_lock, task_req,
                       task_local, task_ans, task_before, applied, apiFrame>>

\* add_bid: bids.entry(intent_id).or_default() finds the Vec of the id,
\* an empty one inserted if there was none
AddBidEntry ==
    \E p \in Adders :
        /\ task_pc[p] = "entry"
        /\ task_local' = [task_local EXCEPT ![p] =
                             get_or_default(app_bids, task_req[p].intent_id)]
        /\ app_bids' = insert(app_bids, task_req[p].intent_id,
                              get_or_default(app_bids, task_req[p].intent_id))
        /\ task_pc' = [task_pc EXCEPT ![p] = "push"]
        /\ UNCHANGED <<bids_lock, app_network, network_lock, task_req,
                       task_ans, task_before, applied, apiFrame>>

\* add_bid: .push(bid), the guard dropped on return; post_bid answers 201
\* with the stored bid
AddBidPush ==
    \E p \in Adders :
        /\ task_pc[p] = "push"
        /\ app_bids' = insert(app_bids, task_req[p].intent_id,
                              Append(task_local[p], task_req[p]))
        /\ applied' = Append(applied, task_req[p])
        /\ bids_lock' = [bids_lock EXCEPT !.writer =
                            IF @ = p THEN NoTask ELSE @]
        /\ task_ans' = [task_ans EXCEPT ![p] =
                           [kind |-> "Ok", code |-> 201, data |-> task_req[p]]]
        /\ task_pc' = [task_pc EXCEPT ![p] = "done"]
        /\ UNCHANGED <<app_network, network_lock, task_req, task_local,
                       task_before, apiFrame>>

\* get_bids: get_bids_for_intent(&intent_id) is called
GetBids ==
    \E g \in Getters, id \in BidIntentIds :
        /\ task_pc[g] = "idle"
        /\ task_req' = [task_req EXCEPT ![g] = id]
        /\ task_before' = [task_before EXCEPT ![g] = Answered]
        /\ task_pc' = [task_pc EXCEPT ![g] = "read"]
        /\ UNCHANGED <<app_bids, bids_lock, app_network, network_lock,
                       task_local, task_ans, applied, apiFrame>>

\* get_bids_for_intent: self.bids.read().await returns a read guard
GetBidsRead ==
    \E g \in Getters :
        /\ task_pc[g] = "read"
        /\ can_read(bids_lock)
        /\ bids_lock' = [bids_lock EXCEPT !.readers = @ \cup {g}]
        /\ task_pc' = [task_pc EXCEPT ![g] = "clone"]
        /\ UNCHANGED <<app_bids, app_network, network_lock, task_req,
                       task_local, task_ans, task_before, applied, apiFrame>>

\* get_bids_for_intent: the Vec of the id is cloned, or an empty one
\* returned, and the guard dropped
GetBidsClone ==
    \E g \in Getters :
        /\ task_pc[g] = "clone"
        /\ task_ans' = [task_ans EXCEPT ![g] =
                           get_or_default(app_bids, task_req[g])]
        /\ bids_lock' = [bids_lock EXCEPT !.readers = @ \ {g}]
        /\ task_pc' = [task_pc EXCEPT ![g] = "done"]
        /\ UNCHANGED <<app_bids, app_network, network_lock, task_req,
                       task_local, task_before, applied, apiFrame>>

\* the tasks of SpecApiNetwork: POST /network/switch and the callers of
\* AppState::network()
Switchers == {"s1", "s2"}
Readers   == {"r1", "r2"}

\* the network names posted
SwitchRequests == {"testnet", "mainnet", "MAINNET", "devnet"}

\* str::to_lowercase on the names posted
to_lowercase(s) == IF s = "MAINNET" THEN "mainnet" ELSE s

\* AppState::network() is called by a handler other than switch_network
Network ==
    \E r \in Readers :
        /\ task_pc[r] = "idle"
        /\ task_before' = [task_before EXCEPT ![r] = Answered]
        /\ task_pc' = [task_pc EXCEPT ![r] = "try_read"]
        /\ UNCHANGED <<app_bids, bids_lock, app_network, network_lock,
                       task_req, task_local, task_ans, applied, apiFrame>>

\* switch_network: the posted name in lowercase; "testnet" | "mainnet"
\* goes on to set_network, any other name to the failure answer
SwitchNetwork ==
    \E s \in Switchers, n \in SwitchRequests :
        /\ task_pc[s] = "idle"
        /\ task_req' = [task_req EXCEPT ![s] = n]
        /\ task_local' = [task_local EXCEPT ![s] = to_lowercase(n)]
        /\ task_before' = [task_before EXCEPT ![s] = Answered]
        /\ task_pc' = [task_pc EXCEPT ![s] =
                          IF to_lowercase(n) \in {"testnet", "mainnet"}
                          THEN "try_write" ELSE "try_read"]
        /\ UNCHANGED <<app_bids, bids_lock, app_network, network_lock,
                       task_ans, applied, apiFrame>>

\* what a task answers with the network name v it read: network() returns
\* it, switch_network puts it in its failure answer
network_answer(t, v) ==
    IF t \in Switchers
    THEN [success |-> FALSE, network |-> v]
    ELSE [network |-> v]

\* network(): try_read() returns a read guard, or fails and the call
\* returns the fallback "testnet"
TryRead ==
    \E t \in Readers \cup Switchers :
        /\ task_pc[t] = "try_read"
        /\ IF can_read(network_lock)
           THEN /\ network_lock' = [network_lock EXCEPT !.readers = @ \cup {t}]
                /\ task_pc' = [task_pc EXCEPT ![t] = "clone"]
                /\ task_ans' = task_ans
           ELSE /\ network_lock' = network_lock
                /\ task_pc' = [task_pc EXCEPT ![t] = "done"]
                /\ task_ans' = [task_ans EXCEPT ![t] =
                                   network_answer(t, "testnet")]
        /\ UNCHANGED <<app_bids, bids_lock, app_network, task_req,
                       task_local, task_before, applied, apiFrame>>

\* network(): the string is cloned and the guard dropped
CloneNetwork ==
    \E t \in Readers \cup Switchers :
        /\ task_pc[t] = "clone"
        /\ task_ans' = [task_ans EXCEPT ![t] = network_answer(t, app_network)]
        /\ network_lock' = [network_lock EXCEPT !.readers = @ \ {t}]
        /\ task_pc' = [task_pc EXCEPT ![t] = "done"]
        /\ UNCHANGED <<app_bids, bids_lock, app_network, task_req,
                       task_local, task_before, applied, apiFrame>>

\* set_network: try_write() returns the write guard, or fails and
\* set_network returns without a write
TryWrite ==
    \E s \in Switchers :
        /\ task_pc[s] = "try_write"
        /\ IF can_write(network_lock)
           THEN /\ network_lock' = [network_lock EXCEPT !.writer = s]
                /\ task_pc' = [task_pc EXCEPT ![s] = "assign"]
           ELSE /\ network_lock' = network_lock
                /\ task_pc' = [task_pc EXCEPT ![s] = "respond"]
        /\ UNCHANGED <<app_bids, bids_lock, app_network, task_req,
                       task_local, task_ans, task_before, applied, apiFrame>>

\* set_network: *n = network.to_string(), and the guard dropped
AssignNetwork ==
    \E s \in Switchers :
        /\ task_pc[s] = "assign"
        /\ app_network' = task_local[s]
        /\ network_lock' = [network_lock EXCEPT !.writer = NoTask]
        /\ task_pc' = [task_pc EXCEPT ![s] = "respond"]
        /\ UNCHANGED <<app_bids, bids_lock, task_req, task_local, task_ans,
                       task_before, applied, apiFrame>>

\* switch_network answers success with the network asked for
SwitchAnswer ==
    \E s \in Switchers :
        /\ task_pc[s] = "respond"
        /\ task_ans' = [task_ans EXCEPT ![s] =
                           [success |-> TRUE, network |-> task_local[s]]]
        /\ task_pc' = [task_pc EXCEPT ![s] = "done"]
        /\ UNCHANGED <<app_bids, bids_lock, app_network, network_lock,
                       task_req, task_local, task_before, applied, apiFrame>>

(***************************************************************************)
(* The specifications                                                      *)
(***************************************************************************)

InitSpecBid ==
    /\ overflow_checks \in BOOLEAN
    /\ InitBid /\ IdleEval /\ IdleSelect /\ IdlePtb /\ IdleDaemon
    /\ IdleFulfill /\ IdleRegistry /\ IdleStaking /\ IdleApi

NextBid == CalculateBid

SpecBid == InitSpecBid /\ [][NextBid]_vars

InitSpecEval ==
    /\ overflow_checks \in BOOLEAN
    /\ IdleBid /\ InitEval /\ IdleSelect /\ IdlePtb /\ IdleDaemon
    /\ IdleFulfill /\ IdleRegistry /\ IdleStaking /\ IdleApi

NextEval == Evaluate

SpecEval == InitSpecEval /\ [][NextEval]_vars

InitSpecSelect ==
    /\ overflow_checks = FALSE
    /\ IdleBid /\ IdleEval /\ InitSelect /\ IdlePtb /\ IdleDaemon
    /\ IdleFulfill /\ IdleRegistry /\ IdleStaking /\ IdleApi

NextSelect == SelectWinner

SpecSelect == InitSpecSelect /\ [][NextSelect]_vars

InitSpecPtb ==
    /\ overflow_checks = FALSE
    /\ IdleBid /\ IdleEval /\ IdleSelect /\ InitPtb /\ IdleDaemon
    /\ IdleFulfill /\ IdleRegistry /\ IdleStaking /\ IdleApi

NextPtb ==
    \/ AddInput
    \/ MoveCall
    \/ TransferObjects
    \/ SplitCoins
    \/ MergeCoins
    \/ Build

SpecPtb == InitSpecPtb /\ [][NextPtb]_vars

InitSpecPtbLong ==
    /\ overflow_checks = FALSE
    /\ IdleBid /\ IdleEval /\ IdleSelect /\ InitPtbLong /\ IdleDaemon
    /\ IdleFulfill /\ IdleRegistry /\ IdleStaking /\ IdleApi

\* the operations that return a reference
NextPtbLong ==
    \/ AddInput
    \/ MoveCall
    \/ SplitCoins

SpecPtbLong == InitSpecPtbLong /\ [][NextPtbLong]_vars

InitSpecFulfill ==
    /\ overflow_checks = FALSE
    /\ IdleBid /\ IdleEval /\ IdleSelect /\ IdlePtb /\ IdleDaemon
    /\ InitFulfill /\ IdleRegistry /\ IdleStaking /\ IdleApi

NextFulfill == Fulfill

SpecFulfill == InitSpecFulfill /\ [][NextFulfill]_vars

InitSpecRegistry ==
    /\ overflow_checks = FALSE
    /\ IdleBid /\ IdleEval /\ IdleSelect /\ IdlePtb /\ IdleDaemon
    /\ IdleFulfill /\ InitRegistry /\ IdleStaking /\ IdleApi

NextRegistry == Lookup

SpecRegistry == InitSpecRegistry /\ [][NextRegistry]_vars

InitSpecStaking ==
    /\ overflow_checks \in BOOLEAN
    /\ IdleBid /\ IdleEval /\ IdleSelect /\ IdlePtb /\ IdleDaemon
    /\ IdleFulfill /\ IdleRegistry /\ InitStaking /\ IdleApi

NextStaking == StakingFulfill

SpecStaking == InitSpecStaking /\ [][NextStaking]_vars

InitSpecApiBids ==
    /\ overflow_checks = FALSE
    /\ IdleBid /\ IdleEval /\ IdleSelect /\ IdlePtb /\ IdleDaemon
    /\ IdleFulfill /\ IdleRegistry /\ IdleStaking
    /\ InitApi(Adders \cup Getters)

NextApiBids ==
    \/ PostBid
    \/ AddBidWrite
    \/ AddBidEntry
    \/ AddBidPush
    \/ GetBids
    \/ GetBidsRead
    \/ GetBidsClone

SpecApiBids == InitSpecApiBids /\ [][NextApiBids]_vars

InitSpecApiNetwork ==
    /\ overflow_checks = FALSE
    /\ IdleBid /\ IdleEval /\ IdleSelect /\ IdlePtb /\ IdleDaemon
    /\ IdleFulfill /\ IdleRegistry /\ IdleStaking
    /\ InitApi(Switchers \cup Readers)

NextApiNetwork ==
    \/ Network
    \/ SwitchNetwork
    \/ TryRead
    \/ CloneNetwork
    \/ TryWrite
    \/ AssignNetwork
    \/ SwitchAnswer

SpecApiNetwork == InitSpecApiNetwork /\ [][NextApiNetwork]_vars

\* one auction round of the daemon, for every minimum yield
InitSpecRound ==
    /\ overflow_checks \in BOOLEAN
    /\ IdleBid /\ IdleEval /\ IdleSelect /\ IdlePtb /\ InitRound
    /\ IdleFulfill /\ IdleRegistry /\ IdleStaking /\ IdleApi

NextRound ==
    \/ NextIntent
    \/ EvaluateIntent
    \/ ExecuteWinningBid
    \/ FulfillReturns
    \/ Sleep

SpecRound == InitSpecRound /\ [][NextRound]_vars

Init ==
    /\ overflow_checks \in BOOLEAN
    /\ IdleBid /\ IdleEval /\ IdleSelect /\ IdlePtb /\ InitDaemon
    /\ IdleFulfill /\ IdleRegistry /\ IdleStaking /\ IdleApi

Next ==
    \/ PollIntentsOk
    \/ PollIntentsErr
    \/ NextIntent
    \/ EvaluateIntent
    \/ ExecuteWinningBid
    \/ FulfillReturns
    \/ Sleep

Spec == Init /\ [][Next]_vars

\* run() is one task that awaits each call in turn: when the pending call
\* (the RPC query, a fulfill, the sleep) returns, with Ok or with Err, the
\* task takes its next step. Calls that never return are outside SpecFair.
SpecFair == Init /\ [][Next]_vars /\ WF_vars(Next)

(***************************************************************************)
(* The claims                                                              *)
(***************************************************************************)

\* C1: for all market_yield, user_min (u64) and cost, margin (u16),
\* calculate_bid returns nothing iff max(market_yield - user_min, 0) <=
\* cost + margin, and otherwise returns exactly market_yield - margin.
C1_CalculateBidContract ==
    bid_result # Unset =>
        LET spread == IF market_apy >= user_min
                      THEN market_apy - user_min ELSE 0
        IN  IF spread <= gas_cost_bps + min_profit_bps
            THEN bid_result = None
            ELSE bid_result = [kind |-> "Some",
                               apy |-> market_apy - min_profit_bps]

\* the positions of the bids of sel_bids that pass the min_yield filter,
\* and those among them that attain the maximum offered yield
SelPassing == {i \in 1..Len(sel_bids) : sel_bids[i].apy >= sel_min_apy}
SelTied ==
    {i \in SelPassing : \A j \in SelPassing : sel_bids[j].apy <= sel_bids[i].apy}
SetMin(S) == CHOOSE x \in S : \A y \in S : x <= y
SetMax(S) == CHOOSE x \in S : \A y \in S : x >= y

\* C2: select_winner returns a bid of the list whose offered yield is
\* >= min_yield and is the maximum among the bids >= min_yield; it returns
\* nothing iff no bid of the list has offered yield >= min_yield.
C2_SelectWinnerMaxPassing ==
    sel_winner # Unset =>
        /\ (sel_winner = None <=> SelPassing = {})
        /\ sel_winner # None =>
              /\ sel_winner.kind = "Some"
              /\ \E i \in SelPassing : sel_bids[i] = sel_winner.bid
              /\ sel_winner.bid.apy >= sel_min_apy
              /\ \A j \in SelPassing : sel_bids[j].apy <= sel_winner.bid.apy

\* C2 witness: a winner was selected from a list that also holds a bid
\* below min_yield and a passing bid of a lower yield
C2_Witness ==
    /\ sel_winner # Unset /\ sel_winner.kind = "Some"
    /\ \E i \in 1..Len(sel_bids) : sel_bids[i].apy < sel_min_apy
    /\ \E j \in SelPassing : sel_bids[j].apy < sel_winner.bid.apy

\* C9 as claimed: when two or more bids tie at the maximum offered yield
\* among the bids >= min_yield, select_winner returns the first of the tied
\* bids in input order.
C9_TieReturnsFirst ==
    (sel_winner # Unset /\ Cardinality(SelTied) >= 2) =>
        /\ sel_winner.kind = "Some"
        /\ sel_winner.bid = sel_bids[SetMin(SelTied)]

\* C9 amended: when two or more bids tie at the maximum offered yield among
\* the bids >= min_yield, select_winner returns the last of the tied bids in
\* input order.
C9_TieReturnsLast ==
    (sel_winner # Unset /\ Cardinality(SelTied) >= 2) =>
        /\ sel_winner.kind = "Some"
        /\ sel_winner.bid = sel_bids[SetMax(SelTied)]

\* C9 witness: a winner among tied bids of different solvers, with a
\* lower passing bid after the last of them
C9_Witness ==
    /\ sel_winner # Unset /\ Cardinality(SelTied) >= 2
    /\ sel_bids[SetMin(SelTied)] # sel_bids[SetMax(SelTied)]
    /\ \E j \in SelPassing : j > SetMax(SelTied)

\* sel_bids reordered by the permutation p of its positions
Permuted(p) == [i \in 1..Len(sel_bids) |-> sel_bids[p[i]]]

\* C10: for every bid list in which exactly one bid attains the maximum
\* offered yield among the bids >= min_yield, select_winner returns that
\* same bid for every permutation of the list.
C10_WinnerIndependentOfOrder ==
    (sel_winner # Unset /\ Cardinality(SelTied) = 1) =>
        \A p \in Permutations(1..Len(sel_bids)) :
            select_winner(Permuted(p), sel_min_apy) =
                [kind |-> "Some", bid |-> sel_bids[SetMin(SelTied)]]

\* C10 witness: three bids, all passing, the single maximum in the middle
C10_Witness ==
    /\ sel_winner # Unset /\ Len(sel_bids) = 3
    /\ SelPassing = {1, 2, 3} /\ SelTied = {2}
    /\ sel_winner.bid = sel_bids[2]

\* C6: every bid that any solver's evaluate produces for an intent has
\* offered yield >= that intent's min_apy (and with the configured margins
\* evaluate neither panics nor wraps).
C6_BidAtLeastMinApy ==
    ev_result # Unset =>
        /\ ev_result.kind \in {"None", "Some"}
        /\ ev_result.kind = "Some" => ev_result.bid.apy >= ev_intent.min_apy

\* C6 witness: a solver has bid on an intent with a positive min_apy
C6_Witness ==
    /\ ev_result # Unset /\ ev_result.kind = "Some"
    /\ ev_intent.min_apy > 0

\* C8: for every solver variant and every network, evaluate returns no bid
\* (and no error) whenever the solver's underlying protocol is not
\* available on the active network.
C8_UnavailableNoBid ==
    (ev_result # Unset /\ ~is_available(SolverProtocol(ev_solver), ev_network))
        => ev_result = None

\* the operations of PtbBuilder that append a command
CommandOps == {"move_call", "split_coins", "merge_coins", "transfer_objects"}

\* some argument of refs is a Result or NestedResult of a command index
\* >= n
HasForwardRef(refs, n) ==
    \E k \in 1..Len(refs) :
        /\ refs[k].kind \in {"Result", "NestedResult"}
        /\ refs[k].index >= n

\* C3: every command operation of PtbBuilder rejects at construction time
\* an argument that is a Result or NestedResult reference whose command
\* index is >= the number of commands already appended, and does not add
\* the command.
C3_ForwardRefRejected ==
    (/\ last_call # Unset
     /\ last_call.op \in CommandOps
     /\ HasForwardRef(last_call.refs, last_call.commands_before))
        => /\ Len(commands) = last_call.commands_before
           /\ last_ret.kind = "Err"

\* C4: over any sequence of poll cycles and any poll results, the daemon
\* runs at most one auction round (one evaluate_intent call) per intent id.
C4_OneRoundPerIntent == \A id \in IntentIds : rounds[id] <= 1

\* C5: in every auction round fulfill is invoked at most once, only on the
\* solver whose bid select_winner returned, and not at all when
\* select_winner returns nothing; after the winner's fulfill fails, no
\* other solver's fulfill is tried in that round.
C5_FulfillOnlyWinnerOnce ==
    /\ Len(fulfill_log) <= 1
    /\ fulfill_log # <<>> =>
          /\ winner # Unset /\ winner.kind = "Some"
          /\ evaluate(overflow_checks, solvers[fulfill_log[1].solver], intent)
                = [kind |-> "Some", bid |-> winner.bid]
    /\ (winner = Unset \/ winner = None) => fulfill_log = <<>>

\* C5 witness: the winner's fulfill has failed and the loop has moved on
\* in a round with several bids
C5_Witness ==
    /\ pc = "next_intent" /\ Len(bids) >= 2
    /\ Len(fulfill_log) = 1 /\ fulfill_log[1].result = "Err"

\* C7: for each network and every intent, the bid list collected by the
\* daemon for a round contains no bid from a solver whose protocol is
\* unavailable on that network.
C7_NoBidFromUnavailable ==
    \A i \in 1..Len(bids) :
        /\ \E k \in 1..Len(solvers) : name(solvers[k]) = bids[i].solver_name
        /\ \A k \in 1..Len(solvers) :
              name(solvers[k]) = bids[i].solver_name =>
                  is_available(SolverProtocol(solvers[k]), network)

\* C7 witness: on testnet a round has collected the bids of both solvers
C7_Witness ==
    /\ network = "Testnet" /\ pc = "execute" /\ Len(bids) = 2

\* C12: an intent's id is in processed_intents from before its evaluate and
\* its fulfill are invoked; no id ever leaves processed_intents, so every id
\* that had a round stays in it; and the batch a poll returns holds no id
\* that was in processed_intents when the poll was made.
C12_ProcessedBeforeRoundAndKept ==
    [][/\ pc' \in {"evaluate", "execute", "fulfill"}
              => intent'.id \in processed_intents'
       /\ processed_intents \subseteq processed_intents'
       /\ \A id \in IntentIds : rounds'[id] > 0 => id \in processed_intents'
       /\ pc = "poll"
              => \A i \in 1..Len(batch') :
                     batch'[i].id \notin processed_intents]_vars

\* a later poll parsed the event of an intent that had its round, and
\* handed nothing on
C12_Witness ==
    /\ polls >= 2
    /\ pc = "sleep"
    /\ batch = <<>>
    /\ \E i \in 1..Len(events) :
          /\ rounds[events[i].id] = 1
          /\ events[i].id \in processed_intents

C14_UnsupportedFulfillAlwaysErr ==
    ful_solver # NoField /\ ful_solver.variant \in {"NaviSolver", "DeepBookSolver"}
        => \A i \in 1..Len(ful_calls) :
               ful_calls[i].result = Err_FulfillmentFailed

\* a NaviSolver was asked twice, for two different intents
C14_Witness ==
    /\ ful_solver # NoField
    /\ ful_solver.variant = "NaviSolver"
    /\ Len(ful_calls) >= 2
    /\ ful_calls[1].intent # ful_calls[2].intent

\* C15: for every (protocol, network) pair, ProtocolConfig::get returns
\* Some(config) exactly when the protocol is in
\* network.supported_protocols(), which is exactly when
\* protocol.is_available(network); for every other pair it returns None.
C15_RegistryAgrees ==
    \A i \in 1..Len(lookups) :
        /\ (lookups[i].config.kind = "Some") <=> lookups[i].supported
        /\ lookups[i].supported <=> lookups[i].available
        /\ lookups[i].config.kind \in {"Some", "None"}
        /\ ~lookups[i].supported => lookups[i].config = None

\* one pair that is configured and one that is not have been looked up
C15_Witness ==
    /\ \E i \in 1..Len(lookups) : lookups[i].config.kind = "Some"
    /\ \E i \in 1..Len(lookups) :
          /\ lookups[i].config = None
          /\ lookups[i].protocol = "Scallop"
          /\ lookups[i].network = "Testnet"

\* C16: when a poll parses the event of an intent whose winner's fulfill
\* failed in an earlier round, the poll hands that intent on as new, so the
\* loop gives it another auction round.
C16_FailedIntentReopened ==
    [][pc = "poll"
          => \A i \in 1..Len(events') :
                 events'[i].id \in failed
                     => \E j \in 1..Len(batch') :
                            batch'[j].id = events'[i].id]_vars

\* C18: while the winner's fulfill for one intent is pending and another
\* intent waits in the batch, the daemon can take that intent and start its
\* auction round.
C18_PendingFulfillDoesNotBlock ==
    (pc = "fulfill" /\ batch # <<>> /\ batch[1].id # intent.id)
        => ENABLED NextIntent

\* C19: add_input returns Input{index} with index the number of inputs the
\* builder held before the call; move_call and split_coins return
\* Result{index} with index the number of commands of every kind it held
\* before the call; so the reference names the element just appended, the
\* last of its list.
C19_ReturnedIndexIsPosition ==
    /\ (last_call # Unset /\ last_call.op = "add_input")
          => /\ last_ret = Input(last_call.inputs_before)
             /\ last_ret.index + 1 = Len(inputs)
    /\ (last_call # Unset /\ last_call.op \in {"move_call", "split_coins"})
          => /\ last_ret = Result(last_call.commands_before)
             /\ last_ret.index + 1 = Len(commands)

\* list is old with exactly one element added at its end
ExtendsByOne(old, list) ==
    /\ Len(list) = Len(old) + 1
    /\ \A i \in 1..Len(old) : list[i] = old[i]

C21_SolverNamesUnique ==
    /\ \A i \in 1..Len(solvers) : name(solvers[i]) # ""
    /\ \A i, j \in 1..Len(solvers) :
          name(solvers[i]) = name(solvers[j]) => i = j
    /\ pc = "fulfill" =>
          LET k == fulfill_log[Len(fulfill_log)].solver
          IN  /\ name(solvers[k]) = winner.bid.solver_name
              /\ \A j \in 1..Len(solvers) :
                    name(solvers[j]) = winner.bid.solver_name => j = k
              /\ evaluate(overflow_checks, solvers[k], intent)
                    = [kind |-> "Some", bid |-> winner.bid]

\* on mainnet the winner of a round with at least three bids is found
\* behind other solvers of the list
C21_Witness ==
    /\ network = "Mainnet"
    /\ pc = "fulfill"
    /\ Len(bids) >= 3
    /\ fulfill_log[Len(fulfill_log)].solver > 1

\* C22: the staking transaction that is submitted consists, in this order,
\* of a split of the gas coin by the stake amount, a move call to
\* request_add_stake taking (system state, the split result, the
\* validator), and a final transfer of the resulting position to the
\* intent's requester.
C22_StakingTransactionShape ==
    (st_result # Unset /\ st_result.exec.submitted # <<>>)
        => LET cs == st_result.exec.submitted
           IN  /\ Len(cs) = 3
               /\ cs[1].kind = "SplitCoins"
               /\ cs[1].coin = GasCoin
               /\ cs[1].amounts = <<[kind |-> "Pure",
                                     value |-> st_params.amount]>>
               /\ cs[2].kind = "MoveCall"
               /\ cs[2].function = "request_add_stake"
               /\ Len(cs[2].arguments) = 3
               /\ cs[2].arguments[1].id = SUI_SYSTEM_STATE
               /\ cs[2].arguments[2] = Result(0)
               /\ cs[2].arguments[3].value = st_params.validator
               /\ cs[3].kind = "TransferObjects"
               /\ cs[3].address.value = st_params.user_address

\* the balance the first gas query reports is below amount + GAS_BUFFER,
\* the sum taken in the integers
BalanceBelowNeed ==
    /\ st_balance_answer.kind = "Ok"
    /\ \/ st_params.amount < 0
       \/ SumSeq(st_balance_answer.coins) < st_params.amount + GAS_BUFFER

\* no coin the second gas query reports holds MIN_COIN_BALANCE
NoUsableCoin ==
    /\ st_coin_answer.kind = "Ok"
    /\ \A i \in 1..Len(st_coin_answer.coins) :
          st_coin_answer.coins[i] < MIN_COIN_BALANCE

AmountBelowMinStake ==
    st_params.amount >= 0 /\ st_params.amount < MIN_STAKE

\* C25: whenever the solver balance is below amount + 10_000_000, or no
\* coin holds at least 1_100_000_000, or the amount is below the
\* 1_000_000_000 minimum stake, execute_staking_fulfillment submits no
\* transaction and returns an error, and StakingSolver::fulfill returns
\* FulfillmentFailed.
C25_StakingPreconditions ==
    (st_result # Unset
     /\ (BalanceBelowNeed \/ NoUsableCoin \/ AmountBelowMinStake))
        => /\ st_result.exec.kind = "Err"
           /\ st_result.exec.submitted = <<>>
           /\ st_result.fulfill = Err_FulfillmentFailed

\* the positions of the solvers whose evaluate returns a bid for intent it
Bidders(it) ==
    {i \in 1..Len(solvers) :
        evaluate(overflow_checks, solvers[i], it).kind = "Some"}

\* C23: the bid list evaluate_intent returns for an intent holds exactly
\* one bid for each solver whose evaluate returned a bid and none for the
\* others, in solver-list order, and collecting it leaves
\* processed_intents and the solver list unchanged.
C23_BidListExact ==
    [][pc = "evaluate" =>
          /\ Len(bids') = Cardinality(Bidders(intent))
          /\ \A i \in Bidders(intent) :
                \E k \in 1..Len(bids') :
                    /\ bids'[k] = evaluate(overflow_checks, solvers[i],
                                           intent).bid
                    /\ k = Cardinality({j \in Bidders(intent) : j <= i})
          /\ processed_intents' = processed_intents
          /\ solvers' = solvers]_vars

\* on mainnet a round has collected the bids of three of the five solvers
C23_Witness ==
    /\ network = "Mainnet"
    /\ pc = "execute"
    /\ Len(bids) = 3
    /\ Len(solvers) = 5

\* a deadline (unix time) of 0 lies before every reading of the clock
deadline_passed(it) == it.deadline = 0

\* C24: an intent whose deadline has already passed is closed: the daemon
\* runs no auction round and invokes no fulfill for it.
C24_ExpiredIntentClosed ==
    pc \in {"evaluate", "execute", "fulfill"} => ~deadline_passed(intent)

\* the solvers whose fulfill fails unconditionally
UnimplementedSolvers == {"DeepBookSolver", "NaviSolver"}

\* C27: with the solver sets and constant yields the daemon configures for
\* testnet and for mainnet, for every intent min_apy a solver whose fulfill
\* unconditionally fails (DeepBookSolver, NaviSolver) is never the selected
\* winner: whenever such a solver bids, another solver bids a strictly
\* higher yield.
C27_UnimplementedNeverWins ==
    /\ winner.kind = "Some" =>
          winner.bid.solver_name \notin UnimplementedSolvers
    /\ \A k \in 1..Len(bids) :
          bids[k].solver_name \in UnimplementedSolvers =>
              \E j \in 1..Len(bids) :
                  /\ bids[j].solver_name \notin UnimplementedSolvers
                  /\ bids[j].apy > bids[k].apy

\* on mainnet NaviSolver and DeepBookSolver have both bid and a winner is
\* selected
C27_Witness ==
    /\ network = "Mainnet"
    /\ winner.kind = "Some"
    /\ \E k \in 1..Len(bids) : bids[k].solver_name = "NaviSolver"
    /\ \E k \in 1..Len(bids) : bids[k].solver_name = "DeepBookSolver"

\* C28: whenever calculate_bid produces a bid, market_yield is strictly
\* greater than margin, so the unsigned subtraction market_yield - margin
\* never underflows, and the offered yield is strictly greater than
\* user_min + cost.
C28_BidAboveMarginAndFloor ==
    bid_result.kind \in {"Some", "SomeWrapped"} =>
        /\ market_apy > min_profit_bps
        /\ bid_result.kind = "Some"
        /\ bid_result.apy > user_min + gas_cost_bps

\* C29: for every pair of 16-bit cost and margin values, pairs whose sum
\* is 65536 or more included, calculate_bid compares the spread against
\* the true integer sum cost + margin: the sum neither wraps modulo 2^16
\* nor aborts the call.
C29_TrueSumCompared ==
    (bid_result # Unset /\ gas_cost_bps + min_profit_bps >= U16) =>
        /\ bid_result.kind # "Panic"
        /\ bid_result = None <=>
              saturating_sub(market_apy, user_min)
                  <= gas_cost_bps + min_profit_bps

\* the add_bid calls that have completed for intent id, the bids written
\* for id in the order of the writes, and the occurrences of e in seq
AddedFor(id) ==
    {p \in Adders : /\ task_pc[p] = "done"
                    /\ task_ans[p].kind = "Ok"
                    /\ task_req[p].intent_id = id}
AppliedFor(id) == SelectSeq(applied, LAMBDA b : b.intent_id = id)
Count(seq, e) == Cardinality({k \in 1..Len(seq) : seq[k] = e})

\* C26: under any interleaving of concurrent add_bid calls (same or
\* different intent ids) and get_bids_for_intent calls, no bid is lost or
\* duplicated: once all add_bid calls have completed,
\* get_bids_for_intent(id) returns exactly the bids added for id, each
\* once, in the order their writes were applied.
C26_NoBidLostOrDuplicated ==
    (\A p \in Adders : task_pc[p] = "done") =>
        \A id \in BidIntentIds :
            LET stored == get_or_default(app_bids, id)
            IN  /\ stored = AppliedFor(id)
                /\ Len(stored) = Cardinality(AddedFor(id))
                /\ \A e \in BidRequests :
                      Count(stored, e) =
                          Cardinality({p \in AddedFor(id) : task_req[p] = e})
                /\ \A g \in Getters :
                      (/\ task_pc[g] = "done"
                       /\ Adders \subseteq task_before[g]
                       /\ task_req[g] = id) => task_ans[g] = stored

\* two add_bid calls for intent 0x1 that overlapped and a third for 0x2
\* have completed, and a get_bids_for_intent("0x1") made afterwards has
\* returned
C26_Witness ==
    /\ \A p \in Adders : task_pc[p] = "done"
    /\ \E p, q \in AddedFor("0x1") :
          /\ p # q
          /\ p \notin task_before[q]
          /\ q \notin task_before[p]
    /\ AddedFor("0x2") # {}
    /\ \E g \in Getters :
          /\ task_pc[g] = "done"
          /\ Adders \subseteq task_before[g]
          /\ task_req[g] = "0x1"
          /\ Len(task_ans[g]) = 2

\* switch s has answered success and no other switch overlapped or
\* followed it: every other switch had answered when s began, or has not
\* begun
SettledSwitch(s) ==
    /\ task_pc[s] = "done"
    /\ task_ans[s].success
    /\ \A q \in Switchers \ {s} :
          q \in task_before[s] \/ task_pc[q] = "idle"

\* C30: under any interleaving with concurrent network() readers and other
\* switches, once switch_network has answered success for network n, the
\* stored network is n: a later network() call with no intervening switch
\* returns n, never the previous value or the "testnet" fallback.
C30_SwitchSuccessIsStored ==
    \A s \in Switchers :
        SettledSwitch(s) =>
            /\ app_network = task_ans[s].network
            /\ \A r \in Readers :
                  (task_pc[r] = "done" /\ s \in task_before[r]) =>
                      task_ans[r].network = task_ans[s].network

====
